---- MODULE Spec2Model ----
(***************************************************************************)
(* Model of src/Advanced/coroutines.cpp: the coroutine frame behind        *)
(* Generator<T>, the Generator handle (constructor, destructor, moves),    *)
(* its Iterator, and the three producers fibonacci, range and inorder.     *)
(*                                                                         *)
(* Control is single-threaded: `running` names who executes, the consumer  *)
(* (0) or a coroutine frame.  A resume hands control to a frame, a         *)
(* co_yield or the final suspend hands it back to the resumer.  Every body *)
(* statement of a producer is one step of the frame that is running.       *)
(*                                                                         *)
(* Three further classes are modelled next to it, each in one variable:    *)
(* Singleton<T> of src/Creational/singleton.cpp with the threads calling   *)
(* getInstance(args...), EventBus<T> of src/Behavioral/observer.cpp with   *)
(* the Staff objects that hold its subscription handles, and Caretaker of  *)
(* src/Behavioral/memento.cpp.                                             *)
(***************************************************************************)
EXTENDS Integers, Sequences, FiniteSets, TLC

\* ---------------------------------------------------------------- bounds
\* Frames ever created (nested child frames of inorder included).
MaxFrames == 4
\* Resumes the consumer issues (fibonacci never completes).
MaxResumes == 4
\* The consumer's Generator variables.
GenIds == {1, 2}

\* Frames and consumer resumes of a run of the test functions: the tree of
\* testTreeTraversal has 7 nodes, testFibonacci takes 10 values.
TestFrames == 7
TestResumes == 10
\* Resumes of a consumer that keeps advancing over fibonacci().
LongResumes == 47
\* getInstance(args...) calls each thread makes on the Singleton.
SingletonCalls == 2
\* The threads that use the Singleton.
Threads == {1, 2, 3}
\* subscribe and publish calls on the EventBus.
MaxSubscribes == 3
MaxPublishes == 2
\* The Staff objects.
Staffs == {1, 2}
\* Snapshots a Caretaker's history holds at most.
MaxHistory == 3
\* The snapshots Chess::save() produces.
Mementos == {1, 2}

\* ---------------------------------------------------------------- constants
\* the null coroutine handle / null TreeNode pointer
NULL == 0
\* int is 32 bits wide; an addition that leaves the range wraps around
INT_MAX == 2147483647
INT_MIN == -INT_MAX - 1
AddInt(x, y) ==
    IF y > 0 /\ x > INT_MAX - y THEN (x - INT_MAX - 1) + (y - INT_MAX - 1)
    ELSE IF y < 0 /\ x < INT_MIN - y THEN (x + INT_MAX + 1) + (y + INT_MAX + 1)
    ELSE x + y
\* the sum of two ints is outside int: signed overflow, undefined
Overflows(x, y) == (y > 0 /\ x > INT_MAX - y) \/ (y < 0 /\ x < INT_MIN - y)
\* what an addition does: the sum, or on overflow whatever the build does
\* (wrap around, or trap)
AddOutcomes(x, y) == IF Overflows(x, y) THEN {"wrap", "trap"} ELSE {"sum"}

\* promise_type::value before the first co_yield (T value; not initialised)
Indeterminate == -7777
\* values an indeterminate or out-of-lifetime int read may produce
Garbage == {-1, 0}

\* The tree of testTreeTraversal (root 4), and two one-sided trees built the
\* same way (9 with the left child 8, 10 with the right child 11); a node is
\* named by its value.
NodeLeft(n) == CASE n = 4 -> 2 [] n = 2 -> 1 [] n = 6 -> 5 [] n = 9 -> 8 [] OTHER -> NULL
NodeRight(n) == CASE n = 4 -> 6 [] n = 2 -> 3 [] n = 6 -> 7 [] n = 10 -> 11 [] OTHER -> NULL
NodeValue(n) == n

RECURSIVE TreeSize(_)
TreeSize(n) == IF n = NULL THEN 0 ELSE 1 + TreeSize(NodeLeft(n)) + TreeSize(NodeRight(n))

\* The producer calls the consumer makes.
RangeArgs == {<<1, 3, 1>>, <<3, 1, 1>>}
Roots == {NULL, 1, 2}
Calls == {[kind |-> "fibonacci", start |-> 0, end |-> 0, step |-> 0, node |-> NULL]}
         \cup {[kind |-> "range", start |-> r[1], end |-> r[2], step |-> r[3], node |-> NULL]
               : r \in RangeArgs}
         \cup {[kind |-> "inorder", start |-> 0, end |-> 0, step |-> 0, node |-> n]
               : n \in Roots}

\* The calls of testFibonacci, testRange and testTreeTraversal, with further
\* range arguments and trees.
TestRangeArgs == {<<1, 6, 1>>, <<1, 6, 2>>, <<0, 1, 3>>, <<INT_MAX - 1, INT_MAX, 2>>,
                  <<0, 1, 0>>, <<0, 1, -1>>, <<1, 0, -1>>}
TestRoots == {NULL, 4, 9, 10}
TestCalls ==
    {[kind |-> "fibonacci", start |-> 0, end |-> 0, step |-> 0, node |-> NULL]}
    \cup {[kind |-> "range", start |-> r[1], end |-> r[2], step |-> r[3], node |-> NULL]
          : r \in TestRangeArgs}
    \cup {[kind |-> "inorder", start |-> 0, end |-> 0, step |-> 0, node |-> n]
          : n \in TestRoots}

\* Frames a call creates over its whole life (inorder: one per node).
FramesOf(c) == IF c.kind = "inorder" /\ c.node # NULL THEN TreeSize(c.node) ELSE 1

VARIABLES
    frames,     \* sequence of coroutine frames; a handle is an index, NULL is 0
    gens,       \* the consumer's Generator objects
    cursors,    \* the consumer's Iterators: cursors[g] is the last g.begin() result
    running,    \* who executes: 0 the consumer, f the body of frame f
    inBegin,    \* the Generator whose begin() is waiting for its resume to return, or 0
    reserved,   \* frames promised to the calls made so far
    obs,        \* what the consumer's last Iterator call returned
    crashed,    \* the process has been killed (null dereference, abort)
    ub,         \* the undefined operation the run ended in, "none" before
    budget,     \* how far the run goes: frames created, resumes the consumer issues
    singleton,  \* src/Creational/singleton.cpp: Singleton<T> and the threads that use it
    bus,        \* src/Behavioral/observer.cpp: an EventBus and the Staff objects watching it
    caretaker   \* src/Behavioral/memento.cpp: a Caretaker and the last call made on it

\* the variables of coroutines.cpp
genVars == <<frames, gens, cursors, running, inBegin, reserved, obs, crashed, ub, budget>>
\* the variables of the other source files
others == <<singleton, bus, caretaker>>

vars == <<genVars, others>>

\* ---------------------------------------------------------------- frames
initial_suspend_never == "suspend_never"

\* promise_type::initial_suspend: suspend_always
initial_suspend == "suspend_always"

\* the coroutine frame a producer call allocates
NewFrame(c) ==
    [kind |-> c.kind, pc |-> "init", side |-> "-", alive |-> TRUE, destroys |-> 0,
     resumer |-> 0, creator |-> 0,
     start |-> c.start, end |-> c.end, step |-> c.step, node |-> c.node,
     a |-> 0, b |-> 0, i |-> 0, child |-> NULL, it |-> NULL, val |-> 0,
     value |-> Indeterminate, finished |-> FALSE,
     nBegin |-> 0, nInc |-> 0, stmts |-> 0, yielded |-> <<>>, threw |-> FALSE]

\* coroutine_handle::done(): suspended at the final suspend point
done(fs, h) == fs[h].pc = "final"

NotStarted(fs, h) == fs[h].pc = "init"

yield_value_keep(fr, v) == fr

\* promise_type::yield_value: value = v
yield_value(fr, v) == [fr EXCEPT !.value = v]

return_void_forgets(fr) == fr

\* promise_type::return_void: finished = true
return_void(fr) == [fr EXCEPT !.finished = TRUE]

\* promise_type::unhandled_exception, entered when an exception leaves the body:
\* std::terminate(), the process ends inside the resume
unhandled_exception(fr) == [fr EXCEPT !.threw = TRUE]

DestroySetShallow(fs, h) == IF h = NULL THEN {} ELSE {h}

\* The frames coro.destroy() releases: the frame and, through the Generator
\* temporaries alive at its suspension point, the child frames below it.
RECURSIVE DestroySet(_, _)
DestroySet(fs, h) ==
    IF h = NULL THEN {}
    ELSE {h} \cup (IF fs[h].child # NULL /\ fs[h].child # h
                   THEN DestroySet(fs, fs[h].child) ELSE {})

\* coroutine_handle::destroy()
destroy(fs, h) ==
    [f \in DOMAIN fs |->
        IF f \in DestroySet(fs, h)
        THEN [fs[f] EXCEPT !.alive = FALSE, !.destroys = @ + 1]
        ELSE fs[f]]

GeneratorDtorLeak(fs, coro) == fs

\* ~Generator(): if (coro) coro.destroy();
GeneratorDtor(fs, coro) == IF coro # NULL THEN destroy(fs, coro) ELSE fs

MovedFromKeeps(coro) == coro

\* other.coro = nullptr, the state a move leaves its source in
MovedFrom(coro) == NULL

\* the result of a bool-valued call, as the consumer keeps it
Bool(b) == IF b THEN "true" ELSE "false"

\* A run that executes an undefined operation ends there: `ub` names the
\* operation, and `crashed` and `obs` hold the outcome the build produced.
\* A run that std::terminate() has killed has ended as well.
Defined == ub = "none" /\ ~crashed

Idle == running = 0 /\ inBegin = 0 /\ Defined

NoCursor == [st |-> "none", h |-> NULL, src |-> NULL]

NoObs == [op |-> "none", c |-> 0, test |-> "none", read |-> <<>>]

\* Iterators of a released frame go out of scope with it.
DropCursors(cs, dead) ==
    [g \in GenIds |-> IF cs[g].st = "live" /\ cs[g].src \in dead THEN NoCursor ELSE cs[g]]

\* ---------------------------------------------------------------- Singleton<T>
\* inline static std::unique_ptr<T> instance; inline static std::once_flag flag;
\* and, per thread, its position in getInstance(args...), the pointer its
\* `new T` returned, and the references its calls have returned
SingletonStart ==
    [instance |-> NULL, flag |-> "idle", objects |-> <<>>,
     pc |-> [t \in Threads |-> "idle"], fresh |-> [t \in Threads |-> NULL],
     calls |-> [t \in Threads |-> 0], ref |-> [t \in Threads |-> <<>>],
     destroys |-> 0, ub |-> "none"]

call_once_unsynchronised(flag) == IF flag = "done" THEN "skip" ELSE "run"

\* std::call_once(flag, f): the first caller runs f, callers that arrive while
\* f runs wait for it, callers after it return at once
call_once(flag) ==
    IF flag = "idle" THEN "run" ELSE IF flag = "running" THEN "wait" ELSE "skip"

\* thread t is at position p of getInstance(args...)
SAt(t, p) == singleton.ub = "none" /\ singleton.pc[t] = p

\* a thread calls getInstance(args...)
S_Call(t) ==
    /\ SAt(t, "idle") /\ singleton.calls[t] < SingletonCalls
    /\ singleton' = [singleton EXCEPT !.pc[t] = "once", !.calls[t] = @ + 1]
    /\ UNCHANGED <<genVars, bus, caretaker>>

\* std::call_once(flag, [&]() {
S_Once(t) ==
    /\ SAt(t, "once") /\ call_once(singleton.flag) # "wait"
    /\ singleton' = IF call_once(singleton.flag) = "run"
                    THEN [singleton EXCEPT !.flag = "running", !.pc[t] = "new"]
                    ELSE [singleton EXCEPT !.pc[t] = "ret"]
    /\ UNCHANGED <<genVars, bus, caretaker>>

\* new T(std::forward<Args>(args)...): T's constructor runs
S_New(t) ==
    /\ SAt(t, "new")
    /\ singleton' = [singleton EXCEPT !.objects = Append(@, [alive |-> TRUE, by |-> t]),
                                      !.fresh[t] = Len(singleton.objects) + 1,
                                      !.pc[t] = "reset"]
    /\ UNCHANGED <<genVars, bus, caretaker>>

\* unique_ptr::reset(p): the pointer is replaced, the object held before is deleted
reset(s, p) ==
    [s EXCEPT !.instance = p,
              !.objects = [k \in DOMAIN s.objects |->
                            IF k = s.instance /\ k # p THEN [s.objects[k] EXCEPT !.alive = FALSE]
                            ELSE s.objects[k]]]

\* instance.reset(new T(...));
S_Reset(t) ==
    /\ SAt(t, "reset")
    /\ singleton' = [reset(singleton, singleton.fresh[t]) EXCEPT !.pc[t] = "unlock"]
    /\ UNCHANGED <<genVars, bus, caretaker>>

\* }); the callable has returned: the flag is set, waiting callers go on
S_OnceDone(t) ==
    /\ SAt(t, "unlock")
    /\ singleton' = [singleton EXCEPT !.flag = "done", !.pc[t] = "ret"]
    /\ UNCHANGED <<genVars, bus, caretaker>>

\* return *instance; binding a reference through a null pointer is undefined
S_Return(t) ==
    /\ SAt(t, "ret")
    /\ singleton' = [singleton EXCEPT
                        !.ref[t] = Append(@, singleton.instance),
                        !.pc[t] = "idle",
                        !.ub = IF singleton.instance = NULL
                               THEN "dereference of a null unique_ptr" ELSE @]
    /\ UNCHANGED <<genVars, bus, caretaker>>

\* static void destroy() { instance.reset(); }, called while no thread is
\* inside getInstance
S_Destroy(t) ==
    /\ \A u \in Threads : SAt(u, "idle")
    /\ singleton.destroys < 1
    /\ singleton' = [reset(singleton, NULL) EXCEPT !.destroys = @ + 1]
    /\ UNCHANGED <<genVars, bus, caretaker>>

\* ---------------------------------------------------------------- EventBus<T>
\* listeners: the vector of weak_ptr, each naming a callback object by its
\* index in `callbacks`; a callback object has `owners` shared_ptr owners and
\* is `held` while the handle subscribe returned for it is in use; `last` is
\* the sequence of callbacks the last publish invoked
BusStart ==
    [listeners |-> <<>>, callbacks |-> <<>>,
     staff |-> [s \in Staffs |-> [st |-> "live", subscription |-> NULL]],
     publishes |-> 0, last |-> <<>>]

shared_ptr(owners) == owners + 1

\* the owners of a callback once a weak_ptr to it is made: a weak_ptr owns nothing
weak_ptr(owners) == owners

\* EventBus::subscribe: make_shared for the callback, a weak_ptr to it appended
\* to listeners, the shared_ptr returned as the handle
subscribe(b) ==
    [b EXCEPT !.callbacks = Append(@, [owners |-> weak_ptr(1), held |-> TRUE]),
              !.listeners = Append(@, Len(b.callbacks) + 1)]

\* the handle for callback h is released (shared_ptr reset or destroyed)
release(b, h) ==
    IF h = NULL THEN b
    ELSE [b EXCEPT !.callbacks[h].owners = @ - 1, !.callbacks[h].held = FALSE]

\* weak_ptr::expired() / a failing weak_ptr::lock(): no owner is left
expired(b, h) == b.callbacks[h].owners = 0

\* Staff::startWatching: subscription = boss.onActionChange(...); the handle
\* held before is released by the assignment
O_StartWatching(s) ==
    /\ bus.staff[s].st = "live" /\ Len(bus.callbacks) < MaxSubscribes
    /\ bus' = [release(subscribe(bus), bus.staff[s].subscription) EXCEPT
                  !.staff[s].subscription = Len(bus.callbacks) + 1]
    /\ UNCHANGED <<genVars, singleton, caretaker>>

\* Staff::stopWatching: subscription.reset();
O_StopWatching(s) ==
    /\ bus.staff[s].st = "live" /\ bus.staff[s].subscription # NULL
    /\ bus' = [release(bus, bus.staff[s].subscription) EXCEPT !.staff[s].subscription = NULL]
    /\ UNCHANGED <<genVars, singleton, caretaker>>

\* the Staff object goes out of scope: its subscription member is destroyed
O_StaffDtor(s) ==
    /\ bus.staff[s].st = "live"
    /\ bus' = [release(bus, bus.staff[s].subscription) EXCEPT
                  !.staff[s] = [st |-> "dead", subscription |-> NULL]]
    /\ UNCHANGED <<genVars, singleton, caretaker>>

\* EventBus::publish: the expired listeners are erased, then every listener
\* whose lock() succeeds is invoked, in the order of the vector
O_Publish ==
    /\ bus.publishes < MaxPublishes
    /\ LET kept == SelectSeq(bus.listeners, LAMBDA h : ~expired(bus, h))
       IN bus' = [bus EXCEPT !.listeners = kept,
                             !.last = SelectSeq(kept, LAMBDA h : ~expired(bus, h)),
                             !.publishes = @ + 1]
    /\ UNCHANGED <<genVars, singleton, caretaker>>

\* ---------------------------------------------------------------- Caretaker
\* history and current are the members; op, ret and erased describe the last
\* call: its name, the pointer it returned and the snapshots it erased
CaretakerStart ==
    [history |-> <<>>, current |-> 0, op |-> "none", ret |-> NULL, erased |-> 0]

erase_nothing(history, from) == history

\* history.erase(history.begin() + from, history.end())
erase(history, from) == SubSeq(history, 1, from)

\* Caretaker::add
add(c, memento) ==
    LET cut == IF c.current < Len(c.history) THEN erase(c.history, c.current)
               ELSE c.history
        pushed == Append(cut, memento)
    IN [history |-> pushed, current |-> Len(pushed), op |-> "add", ret |-> NULL,
        erased |-> Len(c.history) - Len(cut)]

\* Caretaker::undo (history[current] after --current is element `current`
\* of the sequence, which counts from 1)
undo(c) ==
    IF c.current = 0 THEN [c EXCEPT !.op = "undo", !.ret = NULL, !.erased = 0]
    ELSE [c EXCEPT !.current = @ - 1, !.op = "undo", !.ret = c.history[c.current],
                   !.erased = 0]

\* Caretaker::redo
redo(c) ==
    IF c.current >= Len(c.history) THEN [c EXCEPT !.op = "redo", !.ret = NULL, !.erased = 0]
    ELSE [c EXCEPT !.current = @ + 1, !.op = "redo", !.ret = c.history[c.current + 1],
                   !.erased = 0]

M_Add(memento) ==
    /\ caretaker.current < MaxHistory
    /\ caretaker' = add(caretaker, memento)
    /\ UNCHANGED <<genVars, singleton, bus>>

M_Undo ==
    /\ caretaker' = undo(caretaker)
    /\ UNCHANGED <<genVars, singleton, bus>>

M_Redo ==
    /\ caretaker' = redo(caretaker)
    /\ UNCHANGED <<genVars, singleton, bus>>

\* the state before the consumer's first call, for a run of extent `b`
Start(b) ==
    /\ singleton = SingletonStart
    /\ bus = BusStart
    /\ caretaker = CaretakerStart
    /\ budget = b
    /\ frames = <<>>
    /\ gens = [g \in GenIds |-> [st |-> "unborn", coro |-> NULL]]
    /\ cursors = [g \in GenIds |-> NoCursor]
    /\ running = 0
    /\ inBegin = 0
    /\ reserved = 0
    /\ obs = NoObs
    /\ crashed = FALSE
    /\ ub = "none"

Init == Start([frames |-> MaxFrames, resumes |-> MaxResumes])

\* ---------------------------------------------------------------- producer bodies
Body(k) == running # 0 /\ Defined /\ frames[running].kind = k

\* one body statement executed: the frame moves to its next position
Stmt(fr, pc2) == [fr EXCEPT !.pc = pc2, !.stmts = @ + 1]

\* co_yield v: yield_value(v), then control returns to the resumer
CoYield(v, pc2) ==
    /\ frames' = [frames EXCEPT ![running] =
                    [yield_value(Stmt(@, pc2), v) EXCEPT !.yielded = Append(@, v)]]
    /\ running' = frames[running].resumer

final_suspend_never == "suspend_never"

\* promise_type::final_suspend: suspend_always
final_suspend == "suspend_always"

\* the end of the body reached: the frame stays, suspended at its final suspend
\* point (a coroutine that does not suspend there releases its own frame)
FinalSuspend(fr) ==
    IF final_suspend = "suspend_always" THEN [fr EXCEPT !.pc = "final"]
    ELSE [fr EXCEPT !.pc = "end", !.alive = FALSE, !.destroys = @ + 1]

\* falling off the end of the body: return_void(), then the final suspend
CoReturn ==
    /\ running # 0 /\ Defined
    /\ frames[running].pc = "ret"
    /\ frames' = [frames EXCEPT ![running] = FinalSuspend(return_void(@))]
    /\ running' = frames[running].resumer
    /\ UNCHANGED <<gens, cursors, inBegin, reserved, obs, crashed, ub, budget, others>>

FibDeclOnes == [a |-> 1, b |-> 1]

\* fibonacci: the initial values of int a = 0, b = 1;
FibDecl == [a |-> 0, b |-> 1]

\* fibonacci: int a = 0, b = 1;
Fib_Decl ==
    /\ Body("fibonacci") /\ frames[running].pc = "init"
    /\ frames' = [frames EXCEPT ![running] =
                    [Stmt(@, "while") EXCEPT !.a = FibDecl.a, !.b = FibDecl.b]]
    /\ UNCHANGED <<gens, cursors, running, inBegin, reserved, obs, crashed, ub, budget, others>>

FibWhileBounded == Len(frames[running].yielded) < 5

\* fibonacci: the loop condition of while (true)
FibWhile == TRUE

\* fibonacci: while (true) { co_yield a;
Fib_Yield ==
    /\ Body("fibonacci") /\ frames[running].pc = "while"
    /\ IF FibWhile
       THEN CoYield(frames[running].a, "swap")
       ELSE /\ frames' = [frames EXCEPT ![running] = Stmt(@, "ret")]
            /\ UNCHANGED running
    /\ UNCHANGED <<gens, cursors, inBegin, reserved, obs, crashed, ub, budget, others>>

\* fibonacci: std::swap(a, b);
Fib_Swap ==
    /\ Body("fibonacci") /\ frames[running].pc = "swap"
    /\ frames' = [frames EXCEPT ![running] =
                    [Stmt(@, "add") EXCEPT !.a = frames[running].b, !.b = frames[running].a]]
    /\ UNCHANGED <<gens, cursors, running, inBegin, reserved, obs, crashed, ub, budget, others>>

\* fibonacci: b += a; }
Fib_Add ==
    /\ Body("fibonacci") /\ frames[running].pc = "add"
    /\ \E out \in AddOutcomes(frames[running].b, frames[running].a) :
        /\ frames' = [frames EXCEPT ![running] =
                        [Stmt(@, "while") EXCEPT !.b = AddInt(@, frames[running].a)]]
        /\ crashed' = (out = "trap")
        /\ ub' = IF out = "sum" THEN ub ELSE "signed overflow in b += a"
    /\ UNCHANGED <<gens, cursors, running, inBegin, reserved, obs, budget, others>>

\* range: for (int i = start;
Range_Init ==
    /\ Body("range") /\ frames[running].pc = "init"
    /\ frames' = [frames EXCEPT ![running] = [Stmt(@, "test") EXCEPT !.i = frames[running].start]]
    /\ UNCHANGED <<gens, cursors, running, inBegin, reserved, obs, crashed, ub, budget, others>>

\* range: i < end;
Range_Test ==
    /\ Body("range") /\ frames[running].pc = "test"
    /\ frames' = [frames EXCEPT ![running] =
                    Stmt(@, IF @.i < @.end THEN "yield" ELSE "ret")]
    /\ UNCHANGED <<gens, cursors, running, inBegin, reserved, obs, crashed, ub, budget, others>>

\* range: co_yield i;
Range_Yield ==
    /\ Body("range") /\ frames[running].pc = "yield"
    /\ CoYield(frames[running].i, "incr")
    /\ UNCHANGED <<gens, cursors, inBegin, reserved, obs, crashed, ub, budget, others>>

\* range: i += step)
Range_Incr ==
    /\ Body("range") /\ frames[running].pc = "incr"
    /\ \E out \in AddOutcomes(frames[running].i, frames[running].step) :
        /\ frames' = [frames EXCEPT ![running] =
                        [Stmt(@, "test") EXCEPT !.i = AddInt(@, frames[running].step)]]
        /\ crashed' = (out = "trap")
        /\ ub' = IF out = "sum" THEN ub ELSE "signed overflow in i += step"
    /\ UNCHANGED <<gens, cursors, running, inBegin, reserved, obs, budget, others>>

\* ---------------------------------------------------------------- resume
\* who runs right after a producer call made by `caller` created frame `new`
AfterCreate(new, caller) == IF initial_suspend = "suspend_always" THEN caller ELSE new

\* coroutine_handle::resume() is defined for a live frame that is suspended
\* and not at its final suspend point
CanResume(fs, h) == h # NULL /\ fs[h].alive /\ ~done(fs, h)

\* coroutine_handle::resume() called by `caller` (0: the consumer)
resume(fs, h, caller) == [fs EXCEPT ![h].resumer = caller]

InorderCall(n) == [kind |-> "inorder", start |-> 0, end |-> 0, step |-> 0, node |-> n]

\* ---------------------------------------------------------------- inorder
\* inorder: if (node) {
In_IfNode ==
    /\ Body("inorder") /\ frames[running].pc = "init"
    /\ frames' = [frames EXCEPT ![running] =
                    Stmt(@, IF @.node # NULL THEN "ifleft" ELSE "ret")]
    /\ UNCHANGED <<gens, cursors, running, inBegin, reserved, obs, crashed, ub, budget, others>>

\* inorder: if (node->left) {
In_IfLeft ==
    /\ Body("inorder") /\ frames[running].pc = "ifleft"
    /\ frames' = [frames EXCEPT ![running] =
                    IF NodeLeft(@.node) # NULL
                    THEN [Stmt(@, "call") EXCEPT !.side = "L"]
                    ELSE Stmt(@, "yieldnode")]
    /\ UNCHANGED <<gens, cursors, running, inBegin, reserved, obs, crashed, ub, budget, others>>

\* inorder: the range expression inorder(node->left.get()) / inorder(node->right.get()):
\* a child frame owned by the loop's Generator temporary; when the allocation of
\* the child frame fails, std::bad_alloc leaves the body
In_Call ==
    /\ Body("inorder") /\ frames[running].pc = "call"
    /\ LET f == running
           new == Len(frames) + 1
           sub == IF frames[f].side = "L" THEN NodeLeft(frames[f].node)
                                          ELSE NodeRight(frames[f].node)
       IN \E allocated \in BOOLEAN :
            IF allocated
            THEN /\ frames' = Append([frames EXCEPT ![f] = [Stmt(@, "begin") EXCEPT !.child = new]],
                                     [NewFrame(InorderCall(sub)) EXCEPT !.resumer = f, !.creator = f])
                 /\ running' = AfterCreate(new, f)
                 /\ UNCHANGED crashed
            ELSE /\ frames' = [frames EXCEPT ![f] = unhandled_exception(@)]
                 /\ crashed' = TRUE
                 /\ UNCHANGED running
    /\ UNCHANGED <<gens, cursors, inBegin, reserved, obs, ub, budget, others>>

\* inorder: the loop's begin(): if (coro) coro.resume();
In_Begin ==
    /\ Body("inorder") /\ frames[running].pc = "begin"
    /\ LET f == running
           c == frames[f].child
       IN /\ frames' = [resume(frames, c, f) EXCEPT ![f] = Stmt(@, "begin2"),
                                                    ![c].nBegin = @ + 1]
          /\ running' = c
    /\ UNCHANGED <<gens, cursors, inBegin, reserved, obs, crashed, ub, budget, others>>

\* inorder: the loop's begin(): if (!coro.done()) return Iterator{coro}; return Iterator{nullptr};
In_Begin2 ==
    /\ Body("inorder") /\ frames[running].pc = "begin2"
    /\ LET c == frames[running].child
       IN frames' = [frames EXCEPT ![running] =
                        [Stmt(@, "test") EXCEPT !.it = IF ~done(frames, c) THEN c ELSE NULL]]
    /\ UNCHANGED <<gens, cursors, running, inBegin, reserved, obs, crashed, ub, budget, others>>

\* inorder: the loop condition __begin != __end, !handle.done(); a null handle is undefined
In_Test ==
    /\ Body("inorder") /\ frames[running].pc = "test"
    /\ LET f == running
           h == frames[f].it
       IN \E out \in IF h # NULL THEN {Bool(~done(frames, h))} ELSE {"true", "false", "crash"} :
            /\ frames' = [frames EXCEPT ![f] =
                            Stmt(@, IF out = "true" THEN "deref" ELSE "exit")]
            /\ crashed' = (out = "crash")
            /\ ub' = IF h # NULL THEN ub ELSE ("done on a null handle")
    /\ UNCHANGED <<gens, cursors, running, inBegin, reserved, obs, budget, others>>

\* inorder: auto val = *__begin;
In_Deref ==
    /\ Body("inorder") /\ frames[running].pc = "deref"
    /\ LET f == running
           h == frames[f].it
       IN \E v \in IF h # NULL THEN {frames[h].value} ELSE Garbage :
            /\ frames' = [frames EXCEPT ![f] = [Stmt(@, "yieldval") EXCEPT !.val = v]]
            /\ ub' = IF h # NULL THEN ub ELSE ("promise of a null handle")
    /\ UNCHANGED <<gens, cursors, running, inBegin, reserved, obs, crashed, budget, others>>

\* inorder: co_yield val;
In_YieldVal ==
    /\ Body("inorder") /\ frames[running].pc = "yieldval"
    /\ CoYield(frames[running].val, "inc")
    /\ UNCHANGED <<gens, cursors, inBegin, reserved, obs, crashed, ub, budget, others>>

\* inorder: ++__begin, handle.resume()
In_Inc ==
    /\ Body("inorder") /\ frames[running].pc = "inc"
    /\ LET f == running
           h == frames[f].it
       IN /\ frames' = [resume(frames, h, f) EXCEPT ![f] = Stmt(@, "test"),
                                                    ![h].nInc = @ + 1]
          /\ running' = h
    /\ UNCHANGED <<gens, cursors, inBegin, reserved, obs, crashed, ub, budget, others>>

AfterLoopSkipsNode(side) == IF side = "L" THEN "ifright" ELSE "ret"

\* inorder: what follows the loop over the left subtree (co_yield node->value)
\* and the loop over the right subtree (the end of the body)
AfterLoop(side) == IF side = "L" THEN "yieldnode" ELSE "ret"

\* inorder: the loop ends, the Generator temporary is destroyed and with it the child frame
In_LoopExit ==
    /\ Body("inorder") /\ frames[running].pc = "exit"
    /\ LET f == running
           after == AfterLoop(frames[f].side)
       IN frames' = [GeneratorDtor(frames, frames[f].child) EXCEPT
                        ![f] = [Stmt(@, after) EXCEPT !.child = NULL, !.it = NULL]]
    /\ UNCHANGED <<gens, cursors, running, inBegin, reserved, obs, crashed, ub, budget, others>>

\* inorder: co_yield node->value;
In_YieldNode ==
    /\ Body("inorder") /\ frames[running].pc = "yieldnode"
    /\ CoYield(NodeValue(frames[running].node), "ifright")
    /\ UNCHANGED <<gens, cursors, inBegin, reserved, obs, crashed, ub, budget, others>>

\* inorder: if (node->right) {
In_IfRight ==
    /\ Body("inorder") /\ frames[running].pc = "ifright"
    /\ frames' = [frames EXCEPT ![running] =
                    IF NodeRight(@.node) # NULL
                    THEN [Stmt(@, "call") EXCEPT !.side = "R"]
                    ELSE Stmt(@, "ret")]
    /\ UNCHANGED <<gens, cursors, running, inBegin, reserved, obs, crashed, ub, budget, others>>

\* ---------------------------------------------------------------- Generator
LowestUnborn(g) == gens[g].st = "unborn" /\ \A k \in GenIds : k < g => gens[k].st # "unborn"

\* A producer call: the frame is allocated, get_return_object() builds the
\* Generator over its handle, and initial_suspend() decides whether the body starts.
CallProducer(g, c) ==
    /\ Idle /\ LowestUnborn(g)
    /\ reserved + FramesOf(c) <= budget.frames
    /\ LET new == Len(frames) + 1
       IN /\ frames' = Append(frames, NewFrame(c))
          /\ gens' = [gens EXCEPT ![g] = [st |-> "live", coro |-> new]]
          /\ running' = AfterCreate(new, 0)
    /\ reserved' = reserved + FramesOf(c)
    /\ obs' = NoObs
    /\ UNCHANGED <<cursors, inBegin, crashed, ub, budget, others>>

\* Generator(Generator&& other) noexcept : coro(other.coro) { other.coro = nullptr; }
MoveConstruct(g, src) ==
    /\ Idle /\ LowestUnborn(g)
    /\ gens[src].st = "live"
    /\ gens' = [gens EXCEPT ![g] = [st |-> "live", coro |-> gens[src].coro],
                            ![src].coro = MovedFrom(@)]
    /\ obs' = NoObs
    /\ UNCHANGED <<frames, cursors, running, inBegin, reserved, crashed, ub, budget, others>>

AssignLeak(fs, coro) == fs

\* operator=(Generator&&): if (coro) coro.destroy();
AssignRelease(fs, coro) == IF coro # NULL THEN destroy(fs, coro) ELSE fs

SelfAssignUnchecked(g, src) == FALSE

\* operator=(Generator&&): the test this != &other, negated
SelfAssign(g, src) == g = src

\* Generator& operator=(Generator&& other) noexcept; `scoped`: the Iterators of
\* the overwritten frame are out of scope by now
MoveAssignWith(g, src, scoped) ==
    /\ Idle
    /\ gens[g].st = "live" /\ gens[src].st = "live"
    /\ IF ~SelfAssign(g, src)
       THEN /\ frames' = AssignRelease(frames, gens[g].coro)
            /\ gens' = [gens EXCEPT ![g].coro = gens[src].coro, ![src].coro = MovedFrom(@)]
            /\ cursors' = IF scoped
                          THEN DropCursors(cursors, DestroySet(frames, gens[g].coro))
                          ELSE cursors
       ELSE UNCHANGED <<frames, gens, cursors>>
    /\ obs' = IF g = src THEN [NoObs EXCEPT !.op = "selfassign", !.c = g] ELSE NoObs
    /\ UNCHANGED <<running, inBegin, reserved, crashed, ub, budget, others>>

MoveAssign(g, src) == MoveAssignWith(g, src, TRUE)

\* What destroying through handle `coro` may do: defined for a live frame (or no
\* frame); a second destroy of a released frame is undefined.
DtorOutcomes(coro) ==
    IF coro # NULL /\ ~frames[coro].alive THEN {"crash", "return"} ELSE {"return"}

\* ~Generator() run for `g`, which then is in state `st2`; `scoped`: the
\* Iterators of its frame are out of scope by now
RunDtorWith(g, st2, scoped) ==
    /\ Idle
    /\ LET coro == gens[g].coro
       IN \E out \in DtorOutcomes(coro) :
            /\ frames' = GeneratorDtor(frames, coro)
            /\ gens' = [gens EXCEPT ![g].st = st2]
            /\ cursors' = IF scoped THEN DropCursors(cursors, DestroySet(frames, coro))
                                    ELSE cursors
            /\ crashed' = (out = "crash")
            /\ ub' = IF DtorOutcomes(coro) = {"return"} THEN ub
                     ELSE "destroy of a destroyed frame"
    /\ obs' = NoObs
    /\ UNCHANGED <<running, inBegin, reserved, budget, others>>

RunDtor(g, st2) == RunDtorWith(g, st2, TRUE)

\* an Iterator in scope names one of the frames `g` would release
HasCursor(g) ==
    \E c \in GenIds : cursors[c].st = "live" /\ cursors[c].h \in DestroySet(frames, gens[g].coro)

\* the Generator goes out of scope before an Iterator it returned
DestructKeep(g) ==
    /\ gens[g].st = "live" /\ HasCursor(g)
    /\ RunDtorWith(g, "dead", FALSE)

\* the Generator is move-assigned over while an Iterator it returned is in scope
AssignKeep(g, src) ==
    /\ gens[g].st = "live" /\ g # src /\ HasCursor(g)
    /\ MoveAssignWith(g, src, FALSE)

\* the Generator goes out of scope
Destruct(g) ==
    /\ gens[g].st \in {"live", "released"}
    /\ RunDtor(g, "dead")

\* the destructor called directly on a Generator that stays in scope
Release(g) ==
    /\ gens[g].st = "live"
    /\ RunDtor(g, "released")

\* ---------------------------------------------------------------- Iterator
RECURSIVE ConsumerResumes(_)
ConsumerResumes(n) ==
    IF n = 0 THEN 0
    ELSE ConsumerResumes(n - 1)
         + (IF frames[n].creator = 0 THEN frames[n].nBegin + frames[n].nInc ELSE 0)

MayResume == ConsumerResumes(Len(frames)) < budget.resumes

\* What resume() on handle h is when it is not defined.
ResumeUB(h) ==
    IF h = NULL THEN "resume of a null handle"
    ELSE IF ~frames[h].alive THEN "resume of a destroyed frame"
    ELSE "resume of a completed coroutine"

\* the handle names a frame that exists: done() and promise() are defined on it
Valid(h) == h # NULL /\ frames[h].alive

\* Iterator begin(), first statement: if (coro) coro.resume();
Begin(g) ==
    /\ Idle
    /\ gens[g].st = "live"
    /\ LET coro == gens[g].coro
       IN IF coro = NULL
          THEN /\ inBegin' = g
               /\ UNCHANGED <<frames, running, crashed, ub>>
          ELSE IF CanResume(frames, coro)
          THEN /\ MayResume
               /\ frames' = [resume(frames, coro, 0) EXCEPT ![coro].nBegin = @ + 1]
               /\ running' = coro
               /\ inBegin' = g
               /\ UNCHANGED <<crashed, ub>>
          ELSE \E out \in {"crash", "return"} :
               /\ crashed' = (out = "crash")
               /\ ub' = ResumeUB(coro)
               /\ inBegin' = g
               /\ UNCHANGED <<frames, running>>
    /\ obs' = NoObs
    /\ UNCHANGED <<gens, cursors, reserved, budget, others>>

\* Iterator begin(), the rest: if (!coro.done()) return Iterator{coro}; return Iterator{nullptr};
BeginReturn ==
    /\ running = 0 /\ inBegin # 0 /\ Defined
    /\ LET g == inBegin
           coro == gens[g].coro
       IN \E out \in IF coro # NULL THEN {Bool(~done(frames, coro))}
                                    ELSE {"true", "false", "crash"} :
            /\ cursors' = [cursors EXCEPT ![g] =
                            [st |-> "live", h |-> IF out = "true" THEN coro ELSE NULL,
                             src |-> coro]]
            /\ crashed' = (out = "crash")
            /\ ub' = IF coro # NULL THEN ub ELSE "done on a null handle in begin"
    /\ inBegin' = 0
    /\ UNCHANGED <<frames, gens, running, reserved, obs, budget, others>>

\* void operator++() { handle.resume(); }
Inc(c) ==
    /\ Idle
    /\ cursors[c].st = "live"
    /\ LET h == cursors[c].h
       IN IF CanResume(frames, h)
          THEN /\ MayResume
               /\ frames' = [resume(frames, h, 0) EXCEPT ![h].nInc = @ + 1]
               /\ running' = h
               /\ UNCHANGED <<crashed, ub>>
          ELSE \E out \in {"crash", "return"} :
               /\ crashed' = (out = "crash")
               /\ ub' = ResumeUB(h)
               /\ UNCHANGED <<frames, running>>
    /\ obs' = NoObs
    /\ UNCHANGED <<gens, cursors, inBegin, reserved, budget, others>>

\* bool operator!=(std::default_sentinel_t) const { return !handle.done(); }
Neq(c) ==
    /\ Idle
    /\ cursors[c].st = "live"
    /\ LET h == cursors[c].h
       IN \E out \in IF Valid(h) THEN {Bool(~done(frames, h))} ELSE {"true", "false", "crash"} :
            /\ obs' = [op |-> "neq", c |-> c, test |-> out, read |-> <<>>]
            /\ crashed' = (out = "crash")
            /\ ub' = IF Valid(h) THEN ub
                     ELSE IF h = NULL THEN "done on a null handle"
                     ELSE "done on a destroyed frame"
    /\ UNCHANGED <<frames, gens, cursors, running, inBegin, reserved, budget, others>>

\* T operator*() const { return handle.promise().value; }
Deref(c) ==
    /\ Idle
    /\ cursors[c].st = "live"
    /\ LET h == cursors[c].h
       IN \E out \in IF Valid(h) THEN {<<frames[h].value>>}
                       ELSE {<<v>> : v \in Garbage \cup (IF h # NULL THEN {frames[h].value} ELSE {})}
                            \cup {<<>>} :
            /\ obs' = [op |-> "deref", c |-> c, test |-> "none", read |-> out]
            /\ crashed' = (out = <<>>)
            /\ ub' = IF Valid(h) THEN ub
                     ELSE IF h = NULL THEN "promise of a null handle"
                     ELSE "promise of a destroyed frame"
    /\ UNCHANGED <<frames, gens, cursors, running, inBegin, reserved, budget, others>>

\* ---------------------------------------------------------------- specification
BodyStep ==
    \/ Fib_Decl \/ Fib_Yield \/ Fib_Swap \/ Fib_Add
    \/ Range_Init \/ Range_Test \/ Range_Yield \/ Range_Incr
    \/ In_IfNode \/ In_IfLeft \/ In_Call \/ In_Begin \/ In_Begin2 \/ In_Test
    \/ In_Deref \/ In_YieldVal \/ In_Inc \/ In_LoopExit \/ In_YieldNode \/ In_IfRight
    \/ CoReturn

Next ==
    \/ \E g \in GenIds, c \in Calls : CallProducer(g, c)
    \/ \E g \in GenIds, src \in GenIds : MoveConstruct(g, src)
    \/ \E g \in GenIds, src \in GenIds : MoveAssign(g, src)
    \/ \E g \in GenIds : Destruct(g)
    \/ \E g \in GenIds : Begin(g)
    \/ BeginReturn
    \/ \E c \in GenIds : Inc(c)
    \/ \E c \in GenIds : Neq(c)
    \/ \E c \in GenIds : Deref(c)
    \/ BodyStep

Spec == Init /\ [][Next]_vars

\* The same program with the destructor also called directly on a Generator.
NextRelease == Next \/ \E g \in GenIds : Release(g)

SpecRelease == Init /\ [][NextRelease]_vars

\* The test functions: one Generator, iterated with begin(), !=, *, ++ and
\* then destroyed.
InitTests == Start([frames |-> TestFrames, resumes |-> TestResumes])

NextTests ==
    \/ \E c \in TestCalls : CallProducer(1, c)
    \/ Destruct(1)
    \/ Begin(1)
    \/ BeginReturn
    \/ Inc(1)
    \/ Neq(1)
    \/ Deref(1)
    \/ BodyStep

SpecTests == InitTests /\ [][NextTests]_vars

\* A loop over fibonacci() that does not break.
FibCall == [kind |-> "fibonacci", start |-> 0, end |-> 0, step |-> 0, node |-> NULL]

InitLong == Start([frames |-> 1, resumes |-> LongResumes])

NextLong ==
    \/ CallProducer(1, FibCall)
    \/ Destruct(1)
    \/ Begin(1)
    \/ BeginReturn
    \/ Inc(1)
    \/ Neq(1)
    \/ Deref(1)
    \/ Fib_Decl \/ Fib_Yield \/ Fib_Swap \/ Fib_Add

SpecLong == InitLong /\ [][NextLong]_vars

\* The threads of singleton.cpp calling getInstance(args...).
InitSingleton == Start([frames |-> 0, resumes |-> 0])

NextSingleton ==
    \E t \in Threads :
        \/ S_Call(t) \/ S_Once(t) \/ S_New(t) \/ S_Reset(t) \/ S_OnceDone(t) \/ S_Return(t)

SpecSingleton == InitSingleton /\ [][NextSingleton]_vars

\* The same threads with destroy() called between their getInstance calls.
NextSingletonDestroy == NextSingleton \/ \E t \in Threads : S_Destroy(t)

SpecSingletonDestroy == InitSingleton /\ [][NextSingletonDestroy]_vars

\* Staff objects subscribing to, and leaving, the EventBus of a Boss that publishes.
NextBus ==
    \/ \E s \in Staffs : O_StartWatching(s)
    \/ \E s \in Staffs : O_StopWatching(s)
    \/ \E s \in Staffs : O_StaffDtor(s)
    \/ O_Publish

SpecBus == InitSingleton /\ [][NextBus]_vars

\* Any sequence of add, undo and redo on one Caretaker.
NextCaretaker ==
    \/ \E memento \in Mementos : M_Add(memento)
    \/ M_Undo
    \/ M_Redo

SpecCaretaker == InitSingleton /\ [][NextCaretaker]_vars

\* The same program with Iterators that outlive the frame they name.
NextDangling ==
    \/ Next
    \/ \E g \in GenIds : DestructKeep(g)
    \/ \E g \in GenIds, src \in GenIds : AssignKeep(g, src)

SpecDangling == Init /\ [][NextDangling]_vars

\* ---------------------------------------------------------------- properties
Frames == DOMAIN frames

\* C1 (laziness): a frame on which no begin() has been called is still at its
\* initial suspend point: no statement of the producer body has run, nothing was
\* yielded, and the body is not running.
C1_Laziness ==
    \A f \in Frames :
        frames[f].nBegin = 0 =>
            /\ NotStarted(frames, f)
            /\ frames[f].stmts = 0
            /\ frames[f].yielded = <<>>
            /\ running # f

\* a frame created and left alone next to a frame whose first resume, made by
\* begin(), has just run the first body statement
C1_Witness ==
    \E f, k \in Frames :
        /\ frames[f].nBegin = 0 /\ NotStarted(frames, f) /\ running = k
        /\ frames[k].nBegin = 1 /\ frames[k].nInc = 0 /\ frames[k].stmts = 1

\* C2 (ordering): the value operator* returns after one begin() and n-1
\* operator++ on a frame that has not completed is the n-th value the producer
\* body passed to co_yield, and the body has yielded exactly n values.
C2_Ordering ==
    obs.op = "deref" =>
        LET h == cursors[obs.c].h
        IN (h # NULL /\ frames[h].nBegin = 1 /\ ~done(frames, h)) =>
              /\ Len(frames[h].yielded) = frames[h].nInc + 1
              /\ obs.read = <<frames[h].yielded[frames[h].nInc + 1]>>

\* the third value of a sequence read after begin() and two advances
C2_Witness ==
    /\ obs.op = "deref" /\ cursors[obs.c].h # NULL
    /\ LET h == cursors[obs.c].h
       IN /\ frames[h].nBegin = 1 /\ frames[h].nInc = 2 /\ ~done(frames, h)
          /\ obs.read = <<frames[h].yielded[3]>>

\* the frame was released while suspended at a co_yield after at least one value
DroppedMidSequence(f) ==
    /\ frames[f].destroys >= 1
    /\ Len(frames[f].yielded) >= 1
    /\ ~done(frames, f)

\* C3 (cancel by drop): a Generator destroyed while its frame is suspended in
\* the middle of its sequence has destroyed that frame exactly once, and from
\* then on the frame never executes another body statement.
C3_CancelByDrop ==
    /\ [](\A g \in GenIds :
            (gens[g].st = "dead" /\ gens[g].coro # NULL
                /\ Len(frames[gens[g].coro].yielded) >= 1
                /\ ~done(frames, gens[g].coro))
            => (frames[gens[g].coro].destroys = 1 /\ ~frames[gens[g].coro].alive))
    /\ [][\A f \in Frames :
            DroppedMidSequence(f) =>
                /\ frames'[f].stmts = frames[f].stmts
                /\ frames'[f].pc = frames[f].pc
                /\ frames'[f].yielded = frames[f].yielded
                /\ frames'[f].destroys = 1]_vars

\* a Generator destroyed after two of the values of a longer sequence were consumed
C3_Witness ==
    \E g \in GenIds :
        /\ gens[g].st = "dead" /\ gens[g].coro # NULL
        /\ LET f == gens[g].coro
           IN /\ DroppedMidSequence(f) /\ frames[f].destroys = 1
              /\ frames[f].nBegin = 1 /\ frames[f].nInc = 1
              /\ Len(frames[f].yielded) = 2

\* C4 (no post-completion reads): operator* on a cursor whose frame has yielded
\* and then completed returns no value (it fails instead of handing out the
\* last yielded value), and does so without undefined behaviour.
C4_NoPostCompletionRead ==
    (obs.op = "deref" /\ cursors[obs.c].h # NULL /\ done(frames, cursors[obs.c].h))
        => (obs.read = <<>> /\ Defined)

\* C5 (has_value): operator!= against the sentinel, on any cursor begin()
\* returned for a producer's frame, is defined and true iff the frame has not
\* completed.
C5_HasValue ==
    (obs.op = "neq" /\ cursors[obs.c].src # NULL)
        => (Defined /\ (obs.test = "true" <=> ~done(frames, cursors[obs.c].src)))

\* C6 (resume after completion): operator++ on a cursor whose frame has
\* completed is a defined no-op: the frame is unchanged and still completed.
C6_ResumeAfterCompletion ==
    [][\A c \in GenIds :
        (/\ cursors[c].st = "live" /\ cursors[c].h # NULL
         /\ done(frames, cursors[c].h)
         /\ Inc(c))
        => (ub' = "none" /\ ~crashed' /\ frames' = frames)]_vars

\* C7 (empty handle): begin() on a Generator that holds no frame stays within
\* defined behaviour: it neither resumes nor queries a null handle.
C7_EmptyHandleSafe ==
    [][(inBegin # 0 /\ gens[inBegin].coro = NULL) => (ub' = "none" /\ ~crashed')]_vars

\* C8 (idempotent destroy): whatever the sequence of direct releases and scope
\* exits, no frame is destroyed more than once and the second release is defined.
C8_IdempotentDestroy ==
    /\ \A f \in Frames : frames[f].destroys <= 1
    /\ ub # "destroy of a destroyed frame"

\* the owners of frame f: the consumer's live Generators and the Generator
\* temporaries of live frames whose handle is f
Holders(f) ==
    {<<"gen", g>> : g \in {k \in GenIds : gens[k].st = "live" /\ gens[k].coro = f}}
    \cup {<<"frame", p>> : p \in {k \in Frames : frames[k].alive /\ frames[k].child = f}}

\* C9 (exclusive ownership): every live frame is held by exactly one Generator.
C9_ExclusiveOwnership ==
    \A f \in Frames : frames[f].alive => Cardinality(Holders(f)) = 1

\* after two producer calls and a move assignment: the target holds the source's
\* frame and iterates it, the source is empty, the overwritten frame is gone
C9_Witness ==
    /\ \E g \in GenIds : gens[g].st = "live" /\ gens[g].coro # NULL
                         /\ frames[gens[g].coro].alive /\ frames[gens[g].coro].nBegin = 1
    /\ \E g \in GenIds : gens[g].st = "live" /\ gens[g].coro = NULL
    /\ \E f \in Frames : ~frames[f].alive /\ frames[f].creator = 0

\* the frame was released by a move assignment into its owner: no Generator,
\* live or dead, still names it
Overwritten(f) ==
    /\ frames[f].creator = 0 /\ frames[f].destroys >= 1
    /\ \A g \in GenIds : gens[g].coro # f

\* C10 (destroy in every state, no leak): no frame is ever destroyed twice, no
\* destruction is undefined, and once no Generator of the consumer is alive
\* every frame ever created has been destroyed exactly once.
C10_DestroyNoLeak ==
    /\ \A f \in Frames : frames[f].destroys <= 1
    /\ ub # "destroy of a destroyed frame"
    /\ (\A g \in GenIds : gens[g].st # "live")
        => \A f \in Frames : frames[f].destroys = 1 /\ ~frames[f].alive

\* every Generator is gone; one frame was destroyed not started, one suspended
\* in mid-sequence by a move assignment over it, one completed
C10_Witness ==
    /\ \A g \in GenIds : gens[g].st = "dead"
    /\ \E f \in Frames : NotStarted(frames, f) /\ frames[f].destroys = 1
    /\ \E f \in Frames : Overwritten(f) /\ DroppedMidSequence(f)
    /\ \E f \in Frames : done(frames, f) /\ frames[f].destroys = 1

\* C11 (move transfers ownership): a move construction or move assignment from
\* a Generator that holds a frame gives the destination that frame, unchanged
\* (same position, same current value), and leaves the source empty; the
\* destructor of an empty Generator destroys no frame.
C11_MoveTransfers ==
    /\ [][\A g, src \in GenIds :
            (/\ g # src /\ gens[src].st = "live" /\ gens[src].coro # NULL
             /\ (MoveConstruct(g, src) \/ MoveAssign(g, src)))
            => /\ gens'[g].st = "live" /\ gens'[g].coro = gens[src].coro
               /\ frames'[gens[src].coro] = frames[gens[src].coro]
               /\ gens'[src].st = "live" /\ gens'[src].coro = NULL]_vars
    /\ [][\A g \in GenIds :
            (gens[g].st = "live" /\ gens[g].coro = NULL /\ Destruct(g))
            => (frames' = frames /\ ub' = "none" /\ ~crashed')]_vars

\* a frame started through Generator s (its cursor is still there), moved in
\* mid-sequence to g, and still suspended with its value after s was destroyed
C11_Witness ==
    \E g, s \in GenIds :
        /\ g # s /\ gens[s].st = "dead" /\ gens[s].coro = NULL
        /\ gens[g].st = "live" /\ gens[g].coro # NULL
        /\ cursors[s].st = "live" /\ cursors[s].src = gens[g].coro
        /\ LET f == gens[g].coro
           IN /\ frames[f].alive /\ frames[f].destroys = 0 /\ ~done(frames, f)
              /\ Len(frames[f].yielded) >= 1
              /\ frames[f].value = frames[f].yielded[Len(frames[f].yielded)]

\* C12 (self move-assignment): g = std::move(g) changes nothing: the Generator
\* holds the same handle, and no frame is destroyed or advanced.
C12_SelfAssign ==
    [][\A g \in GenIds :
        (gens[g].st = "live" /\ MoveAssign(g, g))
        => (gens' = gens /\ frames' = frames /\ cursors' = cursors
            /\ ub' = "none" /\ ~crashed')]_vars

\* a Generator just assigned to itself while its frame is suspended in mid-sequence
C12_Witness ==
    /\ obs.op = "selfassign" /\ gens[obs.c].st = "live" /\ gens[obs.c].coro # NULL
    /\ LET f == gens[obs.c].coro
       IN /\ frames[f].alive /\ frames[f].destroys = 0
          /\ Len(frames[f].yielded) >= 1 /\ ~done(frames, f)

\* the three states of a frame, read off its position
Phase(fr) ==
    IF fr.pc = "init" THEN "NotStarted"
    ELSE IF fr.pc = "final" THEN "Completed"
    ELSE "Started"

\* the positions a frame can be suspended at: the initial suspend, after a
\* co_yield, and the final suspend
SuspendPoints == {"init", "swap", "incr", "inc", "ifright", "final"}

PhaseSteps ==
    {<<"NotStarted", "NotStarted">>, <<"NotStarted", "Started">>, <<"Started", "Started">>,
     <<"Started", "Completed">>, <<"Completed", "Completed">>}

\* C13 (frame state machine): a frame moves only NotStarted -> Started (suspended
\* with a value between its steps) -> Completed, and only while it runs, that
\* is inside a resume; it never returns to NotStarted and never leaves
\* Completed; it is destroyed only while suspended, in any of the three states;
\* a destroyed frame never changes again and is never resumed.
C13_FrameLifecycle ==
    /\ [][\A f \in Frames :
            /\ <<Phase(frames[f]), Phase(frames'[f])>> \in PhaseSteps
            /\ frames'[f].pc # frames[f].pc => (running = f /\ frames[f].alive)
            /\ (frames[f].alive /\ ~frames'[f].alive)
                => (running # f /\ frames[f].pc \in SuspendPoints)
            /\ ~frames[f].alive => frames'[f] = frames[f]]_vars
    /\ [](ub # "resume of a destroyed frame")

\* one frame destroyed before its first resume, one destroyed suspended at a
\* co_yield, one destroyed after it completed
C13_Witness ==
    \E f, k, m \in Frames :
        /\ ~frames[f].alive /\ Phase(frames[f]) = "NotStarted"
        /\ ~frames[k].alive /\ Phase(frames[k]) = "Started" /\ Len(frames[k].yielded) >= 1
        /\ ~frames[m].alive /\ Phase(frames[m]) = "Completed"

\* C14 (single active adapter): begin() called on a Generator whose frame was
\* already started by an earlier begin() does not resume the frame again: no
\* value is skipped, the call fails without touching the frame.
C14_SecondBegin ==
    [][\A g \in GenIds :
        (/\ gens[g].st = "live" /\ gens[g].coro # NULL
         /\ frames[gens[g].coro].nBegin >= 1
         /\ Begin(g))
        => (frames' = frames /\ running' = 0 /\ ub' = "none")]_vars

\* C15 (use after destroy): operator++, operator* and operator!= on a cursor
\* whose frame its Generator has destroyed are defined: they fail without
\* resuming or reading the destroyed frame.
C15_UseAfterDestroy ==
    [][\A c \in GenIds :
        (/\ cursors[c].st = "live" /\ cursors[c].h # NULL
         /\ ~frames[cursors[c].h].alive
         /\ (Inc(c) \/ Neq(c) \/ Deref(c)))
        => (ub' = "none" /\ frames' = frames /\ obs'.read = <<>>)]_vars

\* C16 (producer-body error): when an exception leaves the producer body during
\* a resume, that resume returns to the begin() or operator++ that made it
\* (which reports the error), the frame then counts as completed, and the
\* process goes on, so that the Generator can still be destroyed.
C16_ProducerError ==
    \A f \in Frames :
        frames[f].threw => (~crashed /\ running # f /\ done(frames, f))

\* the promise holds a produced value that the completion flag has not retired
ValueValid(fr) == fr.value # Indeterminate /\ ~fr.finished

\* C17 (single live value): a frame has one value slot: before the first
\* co_yield it holds no produced value, after a co_yield it holds exactly the
\* operand of the most recent one (earlier values are gone), and the slot is
\* valid only for a started frame that has not completed: `finished` is set
\* exactly when the frame is at its final suspend point.
C17_SingleLiveValue ==
    \A f \in Frames :
        /\ NotStarted(frames, f) => (frames[f].value = Indeterminate /\ frames[f].yielded = <<>>)
        /\ frames[f].yielded = <<>> => frames[f].value = Indeterminate
        /\ frames[f].yielded # <<>> => frames[f].value = frames[f].yielded[Len(frames[f].yielded)]
        /\ frames[f].finished <=> done(frames, f)
        /\ ValueValid(frames[f]) => Phase(frames[f]) = "Started"

\* a frame suspended at its second co_yield holding the second value, not the
\* first, next to a completed frame whose value has been retired
C17_Witness ==
    \E f, k \in Frames :
        /\ running = 0 /\ ~done(frames, f) /\ Len(frames[f].yielded) = 2
        /\ frames[f].value = frames[f].yielded[2] /\ frames[f].value # frames[f].yielded[1]
        /\ ValueValid(frames[f])
        /\ done(frames, k) /\ frames[k].yielded # <<>> /\ ~ValueValid(frames[k])

\* s is an initial part of t
IsPrefix(s, t) == Len(s) <= Len(t) /\ \A k \in 1..Len(s) : s[k] = t[k]

\* the terms start, start + step, ... below end, for step >= 1
RECURSIVE RangeSeq(_, _, _)
RangeSeq(start, end, step) ==
    IF start >= end THEN <<>>
    ELSE IF end < INT_MIN + step \/ start >= end - step THEN <<start>>
    ELSE <<start>> \o RangeSeq(start + step, end, step)

\* C18 (range exactness): for start < end and step >= 1 a range frame yields
\* the terms start, start + step, ... below end, in that order and nothing
\* else; once the last term has been yielded the loop variable is defined and
\* not below end, so that the next resume completes the frame; a completed
\* frame has yielded all the terms.
C18_RangeExact ==
    \A f \in Frames :
        (frames[f].kind = "range" /\ frames[f].start < frames[f].end /\ frames[f].step >= 1)
        => LET seq == RangeSeq(frames[f].start, frames[f].end, frames[f].step)
           IN /\ IsPrefix(frames[f].yielded, seq)
              /\ done(frames, f) => frames[f].yielded = seq
              /\ (frames[f].pc = "test" /\ frames[f].yielded = seq)
                    => (ub = "none" /\ frames[f].i >= frames[f].end)

\* the values of the subtree under n in in-order
RECURSIVE InorderSeq(_)
InorderSeq(n) ==
    IF n = NULL THEN <<>>
    ELSE InorderSeq(NodeLeft(n)) \o <<NodeValue(n)>> \o InorderSeq(NodeRight(n))

\* C19 (tree traversal order): an inorder frame yields the values of its tree
\* in in-order, each once, and has yielded all of them when it completes; for
\* the tree of testTreeTraversal that is 1, 2, 3, 4, 5, 6, 7.
C19_InorderExact ==
    /\ InorderSeq(4) = <<1, 2, 3, 4, 5, 6, 7>>
    /\ \A f \in Frames :
          frames[f].kind = "inorder"
          => /\ IsPrefix(frames[f].yielded, InorderSeq(frames[f].node))
             /\ done(frames, f) => frames[f].yielded = InorderSeq(frames[f].node)
             /\ \A j, k \in 1..Len(frames[f].yielded) :
                    j # k => frames[f].yielded[j] # frames[f].yielded[k]

\* the traversal of the whole test tree, completed by the consumer's resumes
C19_Witness ==
    \E f \in Frames :
        /\ frames[f].kind = "inorder" /\ frames[f].node = 4 /\ frames[f].creator = 0
        /\ done(frames, f) /\ frames[f].yielded = <<1, 2, 3, 4, 5, 6, 7>>
        /\ frames[f].nBegin = 1 /\ frames[f].nInc = 7

\* C20 (Fibonacci prefix): the first 10 values a fibonacci frame yields are
\* 0, 1, 1, 2, 3, 5, 8, 13, 21, 34.
C20_FibonacciPrefix ==
    \A f \in Frames :
        frames[f].kind = "fibonacci"
        => \A k \in 1..Len(frames[f].yielded) :
              k <= 10 => frames[f].yielded[k] = <<0, 1, 1, 2, 3, 5, 8, 13, 21, 34>>[k]

\* a fibonacci frame that has yielded its tenth value, as in testFibonacci
C20_Witness ==
    \E f \in Frames :
        /\ frames[f].kind = "fibonacci" /\ Len(frames[f].yielded) = 10
        /\ frames[f].value = 34 /\ frames[f].nBegin = 1 /\ frames[f].nInc = 9

\* C21 (infinite sequence): a fibonacci frame never completes, and operator!=
\* on a cursor of a fibonacci frame is true after begin() and any number of
\* advances.
C21_FibonacciInfinite ==
    /\ \A f \in Frames :
          frames[f].kind = "fibonacci" => (~done(frames, f) /\ frames[f].pc # "ret")
    /\ (obs.op = "neq" /\ cursors[obs.c].src # NULL
            /\ frames[cursors[obs.c].src].kind = "fibonacci")
        => obs.test = "true"

\* the loop test of testFibonacci after the tenth value
C21_Witness ==
    /\ obs.op = "neq" /\ obs.test = "true" /\ cursors[obs.c].h # NULL
    /\ LET f == cursors[obs.c].h
       IN /\ frames[f].kind = "fibonacci" /\ frames[f].nBegin = 1 /\ frames[f].nInc = 9
          /\ Len(frames[f].yielded) = 10

\* C24 (range is bounded): for every start, end and step, a range frame that
\* keeps being advanced completes: each i += step it executes (it gets there
\* only with i < end) is defined and moves i strictly towards end, so that
\* the loop test fails after finitely many advances.
C24_RangeBounded ==
    [][\A f \in Frames :
        (/\ frames[f].kind = "range" /\ running = f
         /\ frames[f].pc = "incr" /\ frames'[f].pc = "test")
        => (frames'[f].i > frames[f].i /\ ub' = "none")]_vars

\* the frame the consumer created from which frame f descends
RECURSIVE RootOf(_)
RootOf(f) == IF frames[f].creator = 0 THEN f ELSE RootOf(frames[f].creator)

\* the live frames of the traversal rooted at frame r
LiveUnder(r) == {f \in Frames : frames[f].alive /\ RootOf(f) = r}

\* the number of nodes on the longest path from n down to a leaf
RECURSIVE Height(_)
Height(n) ==
    IF n = NULL THEN 0
    ELSE LET l == Height(NodeLeft(n))
             r == Height(NodeRight(n))
         IN 1 + (IF l >= r THEN l ELSE r)

\* C25 (nested cancel): once the Generator of an inorder traversal has been
\* destroyed, at whatever point of the traversal, every frame of that
\* traversal (the root frame and the nested child frames that were live) has
\* been destroyed exactly once and none is live.
C25_NestedCancel ==
    \A g \in GenIds :
        (gens[g].st = "dead" /\ gens[g].coro # NULL /\ frames[gens[g].coro].kind = "inorder")
        => \A f \in Frames :
              RootOf(f) = gens[g].coro => (~frames[f].alive /\ frames[f].destroys = 1)

\* the traversal of the test tree destroyed while three nested frames (for the
\* nodes 4, 2 and 1) were suspended at a co_yield
C25_Witness ==
    \E g \in GenIds, f, k \in Frames :
        /\ gens[g].st = "dead" /\ gens[g].coro # NULL
        /\ LET r == gens[g].coro
           IN /\ frames[r].kind = "inorder" /\ ~done(frames, r) /\ Len(frames[r].yielded) >= 1
              /\ frames[f].creator = r /\ frames[k].creator = f
              /\ \A x \in {r, f, k} : ~done(frames, x) /\ frames[x].destroys = 1
                                       /\ Len(frames[x].yielded) >= 1

\* C26 (nested frame bound), as claimed: the live frames of an inorder
\* traversal never outnumber the nodes on the longest root-to-leaf path of
\* its tree.
C26_FrameBound ==
    \A r \in Frames :
        (frames[r].kind = "inorder" /\ frames[r].creator = 0 /\ frames[r].nBegin >= 1)
        => Cardinality(LiveUnder(r)) <= Height(frames[r].node)

\* C26 (nested frame bound), amended: the live frames of an inorder traversal
\* of a non-empty tree never outnumber the nodes on its longest root-to-leaf
\* path; the traversal of the empty tree has its one root frame.
C26_FrameBoundNonEmpty ==
    \A r \in Frames :
        (frames[r].kind = "inorder" /\ frames[r].creator = 0 /\ frames[r].nBegin >= 1)
        => Cardinality(LiveUnder(r)) <=
              (IF frames[r].node = NULL THEN 1 ELSE Height(frames[r].node))

\* the test tree (height 3) with three live frames, after a first subtree frame
\* was destroyed
C26_Witness ==
    \E r \in Frames :
        /\ frames[r].kind = "inorder" /\ frames[r].creator = 0 /\ frames[r].node = 4
        /\ frames[r].nBegin >= 1 /\ Cardinality(LiveUnder(r)) = 3
        /\ \E f \in Frames : RootOf(f) = r /\ ~frames[f].alive

\* C27 (Fibonacci stays in range): every value a fibonacci frame yields is the
\* Fibonacci number of its index (0, 1, then the sum of the two before), and
\* no b += a overflows, however long the consumer keeps advancing.
C27_FibonacciInRange ==
    /\ ub # "signed overflow in b += a"
    /\ \A f \in Frames :
          frames[f].kind = "fibonacci"
          => \A k \in 1..Len(frames[f].yielded) :
                frames[f].yielded[k] =
                    (IF k = 1 THEN 0
                     ELSE IF k = 2 THEN 1
                     ELSE frames[f].yielded[k - 1] + frames[f].yielded[k - 2])

\* C28 (range increment stays in range): for start < end and step >= 1 no
\* i += step of a range frame overflows, and a completed frame has yielded a
\* last value below end.
C28_RangeIncrement ==
    \A f \in Frames :
        (frames[f].kind = "range" /\ frames[f].start < frames[f].end /\ frames[f].step >= 1)
        => /\ ub # "signed overflow in i += step"
           /\ done(frames, f) =>
                 /\ frames[f].yielded # <<>>
                 /\ frames[f].yielded[Len(frames[f].yielded)] < frames[f].end

\* C22 (singleton uniqueness): under every interleaving of the threads'
\* getInstance(args...) calls T's constructor has run at most once, exactly
\* once as soon as a call has returned, and every reference returned is the
\* one live instance.
C22_SingletonUnique ==
    /\ Len(singleton.objects) <= 1
    /\ singleton.ub = "none"
    /\ \A t \in Threads : \A k \in 1..Len(singleton.ref[t]) :
          /\ Len(singleton.objects) = 1
          /\ singleton.ref[t][k] = 1
          /\ singleton.objects[1].alive

\* every thread has made all its calls: one constructed the instance, all of
\* them got it
C22_Witness ==
    /\ \A t \in Threads : Len(singleton.ref[t]) = SingletonCalls
    /\ Len(singleton.objects) = 1
    /\ \E t \in Threads : singleton.objects[1].by # t /\ singleton.ref[t][1] = 1

\* C29 (destroy then reuse): every reference getInstance(args...) returns,
\* also after destroy() has run, is a reference to a live instance, never one
\* made from the null instance pointer.
C29_DestroyThenReuse ==
    /\ singleton.ub = "none"
    /\ \A t \in Threads : \A k \in 1..Len(singleton.ref[t]) :
          singleton.ref[t][k] # NULL

\* the callbacks whose handle is in use, in subscription order
HeldCallbacks ==
    SelectSeq([k \in 1..Len(bus.callbacks) |-> k], LAMBDA h : bus.callbacks[h].held)

\* C23 (observer auto-unsubscribe): every publish invokes exactly the
\* callbacks whose handle has not been released, each once, in subscription
\* order; a callback whose handle was released is never invoked again.
C23_AutoUnsubscribe ==
    [][bus'.publishes # bus.publishes => bus'.last = HeldCallbacks]_vars

\* a publish after three subscriptions of which the second was released: the
\* first and the third callback were invoked, in that order
C23_Witness ==
    /\ Len(bus.callbacks) = 3 /\ ~bus.callbacks[2].held
    /\ bus.publishes >= 1 /\ bus.last = <<1, 3>>

\* what one call on the Caretaker does to current and history
CaretakerCall ==
    /\ (caretaker'.op = "undo" /\ caretaker.current = 0)
         => (/\ caretaker'.ret = NULL
             /\ caretaker'.current = caretaker.current
             /\ caretaker'.history = caretaker.history)
    /\ (caretaker'.op = "redo" /\ caretaker.current = Len(caretaker.history))
         => (/\ caretaker'.ret = NULL
             /\ caretaker'.current = caretaker.current
             /\ caretaker'.history = caretaker.history)
    /\ (caretaker'.op = "add")
         => (/\ Len(caretaker'.history) = caretaker.current + 1
             /\ \A k \in 1..caretaker.current :
                    caretaker'.history[k] = caretaker.history[k]
             /\ caretaker'.current = Len(caretaker'.history))

\* C30 (memento history cursor): 0 <= current <= history.size() always; an
\* undo at current = 0 and a redo at current = history.size() return nullptr
\* and leave current and history as they were; an add drops every snapshot
\* at index >= current, then appends, and leaves current = history.size().
C30_HistoryCursor ==
    /\ [](0 <= caretaker.current /\ caretaker.current <= Len(caretaker.history))
    /\ [][CaretakerCall]_vars

\* an add made two undos behind the end of a full history: it erased two
\* snapshots before it appended
C30_Witness ==
    /\ caretaker.op = "add" /\ caretaker.erased = 2
    /\ Len(caretaker.history) = 2 /\ caretaker.current = 2
====
